---- MODULE Spec2Model ----
(***************************************************************************)
(* The doubly linked list of code-examples/list/list.cpp, with T = int.    *)
(*                                                                         *)
(* Memory is a set of addresses; every address holds the bytes of one      *)
(* ListNode (value, prev, next).  `alloc` is the set of addresses that     *)
(* operator new has handed out and operator delete has not taken back.     *)
(* The bytes of a released address are indeterminate: reading a link or a  *)
(* value there yields any link or any value, and a write there is lost.    *)
(* An operation that touches a released address is undefined behaviour;    *)
(* it either stops the process or goes through on such bytes, and the      *)
(* model follows a run no further than its first undefined operation.      *)
(*                                                                         *)
(* Two list objects exist.  Spec drives the first one only (construction,  *)
(* append, clear, the queries, destruction).  SpecCopy drives both and     *)
(* adds the member-wise copy constructor and copy assignment the compiler  *)
(* generates for the class.                                                *)
(***************************************************************************)
EXTENDS Integers, Sequences, FiniteSets

VARIABLES heap, alloc, lists, hist, cleared, ret, log, ub, halted, calls

vars == <<heap, alloc, lists, hist, cleared, ret, log, ub, halted, calls>>

(* ------------------------------ bounds --------------------------------- *)

\* Longest chain a list is grown to.
MaxLen == 3

\* Values offered to append.
Values == {123, 456}

\* One address more than the longest chain, so that the allocator has a
\* choice and released addresses are handed out again.
Addr == 1 .. (MaxLen + 1)

\* Indices offered to operator[]: every valid one and two past the end.
Indices == 0 .. (MaxLen + 1)

\* The walks of the code are loops over `current`.  A chain holds at most
\* Cardinality(Addr) nodes, so a walk that visits more is treated as one
\* that never ends.
Fuel == MaxLen + 1

ListIds == {1, 2}

\* Longest run SpecCopy follows, in calls.
MaxCalls == 5

(* --------------------------- program constants ------------------------- *)

null == 0

\* ListNode(T value, ListNode* prev = nullptr, ListNode* next = nullptr)
ListNode(value, prev, next) == [value |-> value, prev |-> prev, next |-> next]

\* DoublyLinkedList(): begin{nullptr}, end{nullptr}, _size{0}
EmptyList == [alive |-> TRUE, begin |-> null, end |-> null, _size |-> 0]

\* The bytes of an address that is not allocated (a placeholder: they are
\* never read, see ReadNext and ReadValue).
Junk == ListNode(0, null, null)

\* The storage of a list object outside its lifetime.
NoList == [alive |-> FALSE, begin |-> null, end |-> null, _size |-> 0]

(* ----------------------------- std::to_string -------------------------- *)

DigitChar(d) ==
    CASE d = 0 -> "0" [] d = 1 -> "1" [] d = 2 -> "2" [] d = 3 -> "3"
      [] d = 4 -> "4" [] d = 5 -> "5" [] d = 6 -> "6" [] d = 7 -> "7"
      [] d = 8 -> "8" [] d = 9 -> "9"

RECURSIVE ToStringNat(_)
ToStringNat(n) ==
    IF n < 10 THEN DigitChar(n)
    ELSE ToStringNat(n \div 10) \o DigitChar(n % 10)

\* std::to_string / operator<<(int): decimal, '-' for negatives.
to_string(n) == IF n < 0 THEN "-" \o ToStringNat(-n) ELSE ToStringNat(n)

(* ------------------------------ memory --------------------------------- *)

\* current->next
ReadNext(h, al, a) == IF a \in al THEN {h[a].next} ELSE Addr \cup {null}

\* current->value
ReadValue(h, al, a) == IF a \in al THEN {h[a].value} ELSE Values

(* ------------------------------- append -------------------------------- *)

\* append without `end->next = new_node`: the old end is not linked forward.
AppendOp_NoTailLink(h, al, L, a, value) ==
    LET h1 == [h EXCEPT ![a] = ListNode(value, null, null)]
    IN  [heap  |-> IF L.begin = null THEN h1 ELSE [h1 EXCEPT ![a].prev = L.end],
         alloc |-> al \cup {a},
         list  |-> IF L.begin = null
                   THEN [L EXCEPT !.begin = a, !.end = a, !._size = L._size + 1]
                   ELSE [L EXCEPT !.end = a, !._size = L._size + 1],
         ub    |-> FALSE]

\* append without `new_node->prev = end`: the new node is not linked back.
AppendOp_NoPrev(h, al, L, a, value) ==
    LET h1 == [h EXCEPT ![a] = ListNode(value, null, null)]
    IN  [heap  |-> IF L.begin = null THEN h1 ELSE [h1 EXCEPT ![L.end].next = a],
         alloc |-> al \cup {a},
         list  |-> IF L.begin = null
                   THEN [L EXCEPT !.begin = a, !.end = a, !._size = L._size + 1]
                   ELSE [L EXCEPT !.end = a, !._size = L._size + 1],
         ub    |-> FALSE]

\* append that also sets `begin->prev = new_node`, as a circular list would.
AppendOp_TouchHead(h, al, L, a, value) ==
    LET h1 == [h EXCEPT ![a] = ListNode(value, null, null)]
    IN  [heap  |-> IF L.begin = null THEN h1
                   ELSE [[[h1 EXCEPT ![a].prev = L.end] EXCEPT ![L.end].next = a]
                            EXCEPT ![L.begin].prev = a],
         alloc |-> al \cup {a},
         list  |-> IF L.begin = null
                   THEN [L EXCEPT !.begin = a, !.end = a, !._size = L._size + 1]
                   ELSE [L EXCEPT !.end = a, !._size = L._size + 1],
         ub    |-> FALSE]

\* void append(T value), with `a` the address operator new returns.
\* The else branch writes through `end`, which is undefined when `end` was
\* released (it was not allocated when new was called).
AppendOp(h, al, L, a, value) ==
    LET h1 == [h EXCEPT ![a] = ListNode(value, null, null)]
        al1 == al \cup {a}
    IN  IF L.begin = null
        THEN [heap  |-> h1,
              alloc |-> al1,
              list  |-> [L EXCEPT !.begin = a, !.end = a, !._size = L._size + 1],
              ub    |-> FALSE]
        ELSE [heap  |-> [[h1 EXCEPT ![a].prev = L.end] EXCEPT ![L.end].next = a],
              alloc |-> al1,
              list  |-> [L EXCEPT !.end = a, !._size = L._size + 1],
              ub    |-> L.end \notin al]

(* -------------------------------- clear -------------------------------- *)

RECURSIVE ClearLoop(_, _, _, _, _, _)
\* The loop with `delete to_delete` before `current = current->next`.
ClearLoop_DeleteFirst(h, al, current, lg, u, fuel) ==
    IF current = null
    THEN {[alloc |-> al, log |-> lg, ub |-> u, hang |-> FALSE]}
    ELSE IF fuel = 0
    THEN {[alloc |-> al, log |-> lg, ub |-> TRUE, hang |-> TRUE]}
    ELSE UNION { ClearLoop(h, al \ {current}, nxt,
                           lg \o << [ev |-> "delete", addr |-> current],
                                    [ev |-> "read_next", addr |-> current] >>,
                           TRUE,
                           fuel - 1) : nxt \in ReadNext(h, al \ {current}, current) }

\* The loop as `while(current && current->next)`: the last node is kept.
ClearLoop_SkipLast(h, al, current, lg, u, fuel) ==
    IF current = null \/ fuel = 0 \/ h[current].next = null
    THEN {[alloc |-> al, log |-> lg, ub |-> u, hang |-> FALSE]}
    ELSE UNION { ClearLoop(h, al \ {current}, nxt,
                           lg \o << [ev |-> "read_next", addr |-> current],
                                    [ev |-> "delete", addr |-> current] >>,
                           u \/ current \notin al,
                           fuel - 1) : nxt \in ReadNext(h, al, current) }

\* while(current) { to_delete = current; current = current->next; delete to_delete; }
\* lg collects the link reads and the releases in program order.
ClearLoop(h, al, current, lg, u, fuel) ==
    IF current = null
    THEN {[alloc |-> al, log |-> lg, ub |-> u, hang |-> FALSE]}
    ELSE IF fuel = 0
    THEN {[alloc |-> al, log |-> lg, ub |-> TRUE, hang |-> TRUE]}
    ELSE LET to_delete == current
         IN  UNION { ClearLoop(h, al \ {to_delete}, nxt,
                               lg \o << [ev |-> "read_next", addr |-> current],
                                        [ev |-> "delete", addr |-> to_delete] >>,
                               u \/ current \notin al,
                               fuel - 1) : nxt \in ReadNext(h, al, current) }

\* clear without `end = nullptr`.
ClearOp_KeepEnd(h, al, L) ==
    { [heap  |-> h,
       alloc |-> r.alloc,
       list  |-> [L EXCEPT !.begin = null, !._size = 0],
       log   |-> r.log,
       ub    |-> r.ub,
       hang  |-> r.hang] : r \in ClearLoop(h, al, L.begin, << >>, FALSE, Fuel) }

\* clear without `_size = 0`.
ClearOp_KeepSize(h, al, L) ==
    { [heap  |-> h,
       alloc |-> r.alloc,
       list  |-> [L EXCEPT !.begin = null, !.end = null],
       log   |-> r.log,
       ub    |-> r.ub,
       hang  |-> r.hang] : r \in ClearLoop(h, al, L.begin, << >>, FALSE, Fuel) }

\* void clear()
ClearOp(h, al, L) ==
    { [heap  |-> h,
       alloc |-> r.alloc,
       list  |-> [L EXCEPT !.begin = null, !.end = null, !._size = 0],
       log   |-> r.log,
       ub    |-> r.ub,
       hang  |-> r.hang] : r \in ClearLoop(h, al, L.begin, << >>, FALSE, Fuel) }

(* ----------------------------- operator[] ------------------------------ *)

RECURSIVE IndexLoop(_, _, _, _, _, _, _)
\* while(current) { if (cur_index == index) return current->value;
\*                  current = current->next; cur_index++; }
IndexLoop(h, al, current, cur_index, index, u, fuel) ==
    IF current = null
    THEN {[kind |-> "fell_off", walked |-> cur_index, ub |-> u, hang |-> FALSE]}
    ELSE IF fuel = 0
    THEN {[kind |-> "fell_off", walked |-> cur_index, ub |-> TRUE, hang |-> TRUE]}
    ELSE IF cur_index = index
    THEN { [kind |-> "value", value |-> v, walked |-> cur_index,
            ub |-> u \/ current \notin al, hang |-> FALSE]
           : v \in ReadValue(h, al, current) }
    ELSE UNION { IndexLoop(h, al, nxt, cur_index + 1, index,
                           u \/ current \notin al, fuel - 1)
                 : nxt \in ReadNext(h, al, current) }

\* The message with the two numbers exchanged.
OutOfRangeWhat_Swapped(index, size) ==
    "index=" \o to_string(size) \o " larger than list size=" \o to_string(index)

\* "index="+std::to_string(index)+" larger than list size="+std::to_string(_size)
OutOfRangeWhat(index, size) ==
    "index=" \o to_string(index) \o " larger than list size=" \o to_string(size)

\* int operator[](std::size_t index): the value returned, or the
\* std::out_of_range thrown once the walk has fallen off the chain.
IndexOp(h, al, L, index) ==
    { IF r.kind = "value"
      THEN [kind |-> "value", value |-> r.value,
            walked |-> r.walked, ub |-> r.ub, hang |-> r.hang]
      ELSE [kind |-> "out_of_range", what |-> OutOfRangeWhat(index, L._size),
            walked |-> r.walked, ub |-> r.ub, hang |-> r.hang]
      : r \in IndexLoop(h, al, L.begin, 0, index, FALSE, Fuel) }

(* ------------------------- size and size_naive ------------------------- *)

\* std::size_t size()
SizeOp(L) == L._size

RECURSIVE SizeNaiveLoop(_, _, _, _, _, _)
\* while(current) { result++; current = current->next; }
SizeNaiveLoop(h, al, current, result, u, fuel) ==
    IF current = null
    THEN {[value |-> result, ub |-> u, hang |-> FALSE]}
    ELSE IF fuel = 0
    THEN {[value |-> result, ub |-> TRUE, hang |-> TRUE]}
    ELSE UNION { SizeNaiveLoop(h, al, nxt, result + 1,
                               u \/ current \notin al, fuel - 1)
                 : nxt \in ReadNext(h, al, current) }

\* std::size_t size_naive()
SizeNaiveOp(h, al, L) == SizeNaiveLoop(h, al, L.begin, 0, FALSE, Fuel)

(* ----------------------------- operator<< ------------------------------ *)

RECURSIVE RenderLoop(_, _, _, _, _, _, _)
\* The loop writing the separator before each value instead of after it.
RenderLoop_SpaceFirst(h, al, current, out, seen, u, fuel) ==
    IF current = null
    THEN {[out |-> out, seen |-> seen, ub |-> u, hang |-> FALSE]}
    ELSE IF fuel = 0
    THEN {[out |-> out, seen |-> seen, ub |-> TRUE, hang |-> TRUE]}
    ELSE UNION { RenderLoop(h, al, nxt,
                            out \o " " \o to_string(v),
                            Append(seen, v),
                            u \/ current \notin al, fuel - 1)
                 : v \in ReadValue(h, al, current),
                   nxt \in ReadNext(h, al, current) }

\* while(current) { out << current->value << " "; current = current->next; }
\* seen is the sequence of values written, in order.
RenderLoop(h, al, current, out, seen, u, fuel) ==
    IF current = null
    THEN {[out |-> out, seen |-> seen, ub |-> u, hang |-> FALSE]}
    ELSE IF fuel = 0
    THEN {[out |-> out, seen |-> seen, ub |-> TRUE, hang |-> TRUE]}
    ELSE UNION { RenderLoop(h, al, nxt,
                            out \o to_string(v) \o " ",
                            Append(seen, v),
                            u \/ current \notin al, fuel - 1)
                 : v \in ReadValue(h, al, current),
                   nxt \in ReadNext(h, al, current) }

\* std::ostream& operator<<(std::ostream& out, const DoublyLinkedList<T>& list)
RenderOp(h, al, L) ==
    { [out |-> r.out \o "]", seen |-> r.seen, ub |-> r.ub, hang |-> r.hang]
      : r \in RenderLoop(h, al, L.begin, "[ ", << >>, FALSE, Fuel) }

(* ------------------------------ the state ------------------------------ *)

\* heap     the bytes at every address, read as a ListNode
\* alloc    the addresses currently allocated
\* lists    the two list objects: alive, begin, end, _size
\* hist     per list, the values appended since it was constructed or
\*          last cleared (a copy starts with its source's)
\* cleared  per list, whether clear() was called since its construction
\* ret      what the most recent call returned or threw
\* log      the link reads and releases of the most recent clear()
\* ub       an undefined operation has been executed
\* halted   that operation stopped the process
\* calls    the number of calls made so far (counted by SpecCopy only)

\* The record of a call that returns nothing.
Void(name, l) == [op |-> name, list |-> l]

Init ==
    /\ heap = [a \in Addr |-> Junk]
    /\ alloc = {}
    /\ lists = [l \in ListIds |-> IF l = 1 THEN EmptyList ELSE NoList]
    /\ hist = [l \in ListIds |-> << >>]
    /\ cleared = [l \in ListIds |-> FALSE]
    /\ ret = Void("construct", 1)
    /\ log = << >>
    /\ ub = FALSE
    /\ halted = FALSE
    /\ calls = 0

\* The state after a call whose effect is the record r.  An undefined call
\* either stops the process or goes through; a walk that never ends stops
\* it.
Outcome(r) ==
    \E stop \in (IF r.hang THEN {TRUE} ELSE IF r.ub THEN BOOLEAN ELSE {FALSE}) :
        /\ ub' = (ub \/ r.ub)
        /\ halted' = stop
        /\ IF stop
           THEN UNCHANGED <<heap, alloc, lists, hist, cleared, ret, log>>
           ELSE /\ heap' = [a \in Addr |-> IF a \in r.alloc THEN r.heap[a] ELSE Junk]
                /\ alloc' = r.alloc
                /\ lists' = r.lists
                /\ hist' = r.hist
                /\ cleared' = r.cleared
                /\ ret' = r.ret
                /\ log' = r.log

\* DoublyLinkedList<int> list;
construct(l) ==
    /\ ~ub
    /\ ~lists[l].alive
    /\ lists' = [lists EXCEPT ![l] = EmptyList]
    /\ hist' = [hist EXCEPT ![l] = << >>]
    /\ cleared' = [cleared EXCEPT ![l] = FALSE]
    /\ ret' = Void("construct", l)
    /\ log' = << >>
    /\ UNCHANGED <<heap, alloc, ub, halted>>

\* list.append(value)
append(l, value) ==
    /\ ~ub
    /\ lists[l].alive
    /\ lists[l]._size < MaxLen
    /\ \E a \in Addr \ alloc :
         LET r == AppendOp(heap, alloc, lists[l], a, value)
         IN  Outcome([heap    |-> r.heap,
                      alloc   |-> r.alloc,
                      lists   |-> [lists EXCEPT ![l] = r.list],
                      hist    |-> [hist EXCEPT ![l] = Append(@, value)],
                      cleared |-> cleared,
                      ret     |-> Void("append", l),
                      log     |-> << >>,
                      ub      |-> r.ub,
                      hang    |-> FALSE])

\* list.clear()
clear(l) ==
    /\ ~ub
    /\ lists[l].alive
    /\ \E r \in ClearOp(heap, alloc, lists[l]) :
         Outcome([heap    |-> r.heap,
                  alloc   |-> r.alloc,
                  lists   |-> [lists EXCEPT ![l] = r.list],
                  hist    |-> [hist EXCEPT ![l] = << >>],
                  cleared |-> [cleared EXCEPT ![l] = TRUE],
                  ret     |-> Void("clear", l),
                  log     |-> r.log,
                  ub      |-> r.ub,
                  hang    |-> r.hang])

\* ~DoublyLinkedList() { this->clear(); }
destroy(l) ==
    /\ ~ub
    /\ lists[l].alive
    /\ \E r \in ClearOp(heap, alloc, lists[l]) :
         Outcome([heap    |-> r.heap,
                  alloc   |-> r.alloc,
                  lists   |-> [lists EXCEPT ![l] = [r.list EXCEPT !.alive = FALSE]],
                  hist    |-> [hist EXCEPT ![l] = << >>],
                  cleared |-> [cleared EXCEPT ![l] = FALSE],
                  ret     |-> Void("destroy", l),
                  log     |-> r.log,
                  ub      |-> r.ub,
                  hang    |-> r.hang])

\* A call that changes neither the heap nor a list and returns x.
Query(x, u, hg) ==
    Outcome([heap |-> heap, alloc |-> alloc, lists |-> lists, hist |-> hist,
             cleared |-> cleared, ret |-> x, log |-> << >>, ub |-> u, hang |-> hg])

\* list[index]
get(l, index) ==
    /\ ~ub
    /\ lists[l].alive
    /\ \E r \in IndexOp(heap, alloc, lists[l], index) :
         Query(IF r.kind = "value"
               THEN [op |-> "get", list |-> l, index |-> index, kind |-> "value",
                     value |-> r.value]
               ELSE [op |-> "get", list |-> l, index |-> index,
                     kind |-> "out_of_range", what |-> r.what],
               r.ub, r.hang)

\* list.size()
size(l) ==
    /\ ~ub
    /\ lists[l].alive
    /\ Query([op |-> "size", list |-> l, value |-> SizeOp(lists[l])], FALSE, FALSE)

\* list.size_naive()
size_naive(l) ==
    /\ ~ub
    /\ lists[l].alive
    /\ \E r \in SizeNaiveOp(heap, alloc, lists[l]) :
         Query([op |-> "size_naive", list |-> l, value |-> r.value], r.ub, r.hang)

\* s_out << list
render(l) ==
    /\ ~ub
    /\ lists[l].alive
    /\ \E r \in RenderOp(heap, alloc, lists[l]) :
         Query([op |-> "render", list |-> l, out |-> r.out], r.ub, r.hang)

\* DoublyLinkedList<int> dst{src}: the class declares no copy constructor, so
\* the compiler's copies begin, end and _size member by member.
copy_construct(src, dst) ==
    /\ ~ub
    /\ src # dst
    /\ lists[src].alive
    /\ ~lists[dst].alive
    /\ lists' = [lists EXCEPT ![dst] = lists[src]]
    /\ hist' = [hist EXCEPT ![dst] = hist[src]]
    /\ cleared' = [cleared EXCEPT ![dst] = FALSE]
    /\ ret' = Void("copy_construct", dst)
    /\ log' = << >>
    /\ UNCHANGED <<heap, alloc, ub, halted>>

\* dst = src: the compiler's copy assignment, member by member; the nodes
\* dst held are not released.
copy_assign(src, dst) ==
    /\ ~ub
    /\ src # dst
    /\ lists[src].alive
    /\ lists[dst].alive
    /\ lists' = [lists EXCEPT ![dst] = lists[src]]
    /\ hist' = [hist EXCEPT ![dst] = hist[src]]
    /\ ret' = Void("copy_assign", dst)
    /\ log' = << >>
    /\ UNCHANGED <<heap, alloc, cleared, ub, halted>>

\* One list object, used through its public interface.
Next ==
    \E l \in {1} :
        \/ construct(l) /\ UNCHANGED calls
        \/ \E value \in Values : append(l, value) /\ UNCHANGED calls
        \/ clear(l) /\ UNCHANGED calls
        \/ destroy(l) /\ UNCHANGED calls
        \/ \E index \in Indices : get(l, index) /\ UNCHANGED calls
        \/ size(l) /\ UNCHANGED calls
        \/ size_naive(l) /\ UNCHANGED calls
        \/ render(l) /\ UNCHANGED calls

Spec == Init /\ [][Next]_vars

\* A call of a run SpecCopy follows.
Tick == calls < MaxCalls /\ calls' = calls + 1

\* Two list objects and the compiler-generated copy operations; the queries,
\* which change nothing, are left to Spec.
NextCopy ==
    \E l \in ListIds :
        \/ construct(l) /\ Tick
        \/ \E value \in Values : append(l, value) /\ Tick
        \/ clear(l) /\ Tick
        \/ destroy(l) /\ Tick
        \/ \E dst \in ListIds : copy_construct(l, dst) /\ Tick
        \/ \E dst \in ListIds : copy_assign(l, dst) /\ Tick

SpecCopy == Init /\ [][NextCopy]_vars

(* ============================ the properties =========================== *)

\* The list object Spec drives.
TheList == lists[1]

RECURSIVE NthNext(_, _, _)
\* The link reached from a by following next k times (absent stays absent).
NthNext(h, a, k) == IF k = 0 \/ a = null THEN a ELSE NthNext(h, h[a].next, k - 1)

RECURSIVE NthPrev(_, _, _)
\* The link reached from a by following prev k times (absent stays absent).
NthPrev(h, a, k) == IF k = 0 \/ a = null THEN a ELSE NthPrev(h, h[a].prev, k - 1)

\* The nodes met on the walk from a via next, at most Cardinality(Addr) of them.
NodesFrom(h, a) == { NthNext(h, a, k) : k \in 0 .. MaxLen } \ {null}

\* Decimal text of the numbers the indices and sizes take, written out.
NumText(n) ==
    CASE n = 0 -> "0" [] n = 1 -> "1" [] n = 2 -> "2" [] n = 3 -> "3"
      [] n = 4 -> "4" [] n = 5 -> "5" [] n = 6 -> "6" [] n = 7 -> "7"

\* Decimal text of the values offered to append, written out.
ValueText(v) == CASE v = 123 -> "123" [] v = 456 -> "456"

(* C1: after appending v1..vn in order to a freshly constructed list, with no
   clear in between, size() and size_naive() are n and operator[] at every
   i < n returns v_{i+1}; a get or size call just made returned accordingly. *)
C1_AppendOrder ==
    (TheList.alive /\ ~cleared[1]) =>
        LET n == Len(hist[1])
        IN  /\ SizeOp(TheList) = n
            /\ SizeNaiveOp(heap, alloc, TheList)
                 = {[value |-> n, ub |-> FALSE, hang |-> FALSE]}
            /\ \A i \in 0 .. (n - 1) :
                 IndexOp(heap, alloc, TheList, i)
                   = {[kind |-> "value", value |-> hist[1][i + 1], walked |-> i,
                       ub |-> FALSE, hang |-> FALSE]}
            /\ (ret.op = "get" /\ ret.index < n) =>
                 (ret.kind = "value" /\ ret.value = hist[1][ret.index + 1])
            /\ ret.op \in {"size", "size_naive"} => ret.value = n

\* A fresh list grown to MaxLen with differing values, its last item just read.
C1_Witness ==
    /\ TheList.alive /\ ~cleared[1]
    /\ Len(hist[1]) = MaxLen
    /\ hist[1][1] # hist[1][MaxLen]
    /\ ret.op = "get" /\ ret.index = MaxLen - 1 /\ ret.kind = "value"

(* C2: operator[] throws std::out_of_range exactly when index >= _size and
   returns a value exactly when index < _size; the message reads
   "index=<index> larger than list size=<_size>", and _size is the number of
   nodes the walk visited before it fell off the chain. *)
C2_OutOfRange ==
    TheList.alive =>
        /\ \A index \in Indices :
             \A r \in IndexOp(heap, alloc, TheList, index) :
                 /\ (r.kind = "out_of_range") = (index >= TheList._size)
                 /\ (r.kind = "value") = (index < TheList._size)
                 /\ r.kind = "out_of_range" =>
                      /\ r.what = "index=" \o NumText(index)
                                    \o " larger than list size=" \o NumText(TheList._size)
                      /\ r.walked = TheList._size
        /\ \A index \in Indices : IndexOp(heap, alloc, TheList, index) # {}
        /\ ret.op = "get" =>
             /\ (ret.kind = "out_of_range") = (ret.index >= TheList._size)
             /\ (ret.kind = "out_of_range" /\ ret.index = 2 /\ TheList._size = 2) =>
                  ret.what = "index=2 larger than list size=2"

\* list[2] has just thrown on a list of two items.
C2_Witness ==
    /\ TheList.alive /\ TheList._size = 2
    /\ ret.op = "get" /\ ret.index = 2 /\ ret.kind = "out_of_range"

(* C3: the chain is symmetric and acyclic: from begin, _size steps of next
   visit _size distinct nodes, the last of them end, and then reach absent;
   from end, the same number of steps of prev reach begin and then absent;
   adjacent nodes A, B have A.next = B and B.prev = A; begin has no prev and
   end has no next. *)
C3_Structure ==
    TheList.alive =>
        LET n == TheList._size
            at(i) == NthNext(heap, TheList.begin, i)
            back(i) == NthPrev(heap, TheList.end, i)
        IN  /\ at(n) = null
            /\ back(n) = null
            /\ \A i \in 0 .. (n - 1) : at(i) # null /\ back(i) # null
            /\ \A i, j \in 0 .. (n - 1) : at(i) = at(j) => i = j
            /\ n > 0 => /\ at(n - 1) = TheList.end
                        /\ back(n - 1) = TheList.begin
                        /\ heap[TheList.begin].prev = null
                        /\ heap[TheList.end].next = null
            /\ \A i \in 0 .. (n - 2) :
                 /\ heap[at(i)].next = at(i + 1)
                 /\ heap[at(i + 1)].prev = at(i)
                 /\ back(n - 1 - i) = at(i)

\* A chain of MaxLen nodes built after a clear, so on addresses used before.
C3_Witness ==
    /\ TheList.alive /\ cleared[1]
    /\ TheList._size = MaxLen
    /\ ret.op = "append"

(* C4: begin is absent iff end is absent iff _size is 0. *)
C4_EmptyIff ==
    TheList.alive =>
        /\ (TheList.begin = null) = (TheList.end = null)
        /\ (TheList.end = null) = (TheList._size = 0)

\* The list was emptied by clear() after holding items, and was filled again.
C4_Witness ==
    /\ TheList.alive /\ cleared[1]
    /\ TheList._size = 1 /\ TheList.begin # null /\ TheList.end # null

(* C5: size_naive(), the number of nodes on the walk from begin, returns what
   size(), the _size field, returns. *)
C5_SizeAgree ==
    TheList.alive =>
        /\ \A r \in SizeNaiveOp(heap, alloc, TheList) :
             r.value = SizeOp(TheList) /\ ~r.hang
        /\ SizeNaiveOp(heap, alloc, TheList) # {}
        /\ ret.op = "size_naive" => ret.value = SizeOp(TheList)

\* size_naive() has just counted MaxLen nodes of a list that was cleared before.
C5_Witness ==
    /\ TheList.alive /\ cleared[1]
    /\ ret.op = "size_naive" /\ ret.value = MaxLen

RECURSIVE ChainSeq(_, _, _)
\* The nodes met on the walk from a via next, in order.
ChainSeq(h, a, fuel) ==
    IF a = null \/ fuel = 0 THEN << >>
    ELSE <<a>> \o ChainSeq(h, h[a].next, fuel - 1)

RECURSIVE FreshRun(_, _, _)
\* The memory and the list object after DoublyLinkedList<int> fresh; followed
\* by fresh.append(values[i]) for i = 1..k, when the i-th new returns addrs[i].
FreshRun(values, addrs, k) ==
    IF k = 0
    THEN [heap |-> [a \in Addr |-> Junk], alloc |-> {}, list |-> EmptyList]
    ELSE LET s == FreshRun(values, addrs, k - 1)
             r == AppendOp(s.heap, s.alloc, s.list, addrs[k], values[k])
         IN  [heap |-> r.heap, alloc |-> r.alloc, list |-> r.list]

(* C6: right after clear() the list object and the memory are those of a
   freshly constructed empty list; and whatever is appended after a clear()
   leaves exactly the object and the nodes (begin, end, _size, every value,
   prev and next) that the same appends leave on a new list when new returns
   the same addresses, so every query, a function of these, answers the
   same; the first node appended after clear() is both begin and end and has
   neither prev nor next. *)
C6_ClearIsFresh ==
    /\ ret.op = "clear" =>
         /\ TheList = EmptyList
         /\ alloc = {}
         /\ heap = [a \in Addr |-> Junk]
    /\ (TheList.alive /\ cleared[1]) =>
         LET addrs == ChainSeq(heap, TheList.begin, Fuel)
             n == Len(hist[1])
         IN  /\ Len(addrs) = n
             /\ Len(addrs) = n =>
                  LET f == FreshRun(hist[1], addrs, n)
                  IN  /\ TheList = f.list
                      /\ alloc = f.alloc
                      /\ heap = f.heap
             /\ n = 1 =>
                  /\ TheList.begin = TheList.end
                  /\ TheList.begin # null
                  /\ heap[TheList.begin].prev = null
                  /\ heap[TheList.begin].next = null

\* The first append after a clear() of a list that held items.
C6_Witness ==
    /\ TheList.alive /\ cleared[1]
    /\ Len(hist[1]) = 1
    /\ ret.op = "append"
    /\ TheList.begin = TheList.end

(* C7: two list objects alive at the same time, however obtained (default
   construction, copy construction, copy assignment), share no node, and no
   released node is touched or released again. *)
C7_Exclusive ==
    /\ \A l1, l2 \in ListIds :
         (l1 # l2 /\ lists[l1].alive /\ lists[l2].alive) =>
             NodesFrom(heap, lists[l1].begin) \cap NodesFrom(heap, lists[l2].begin) = {}
    /\ ~ub

\* The addresses released, in the order of the log.
Released(lg) == SelectSeq(lg, LAMBDA e : e.ev = "delete")

\* In every state: the allocated nodes are those on the walk from begin (none
\* once the list is destroyed); no released address was touched; in the log
\* of the last clear() no address is released twice and none is read after
\* its release.
C8_Owned ==
    /\ ~ub
    /\ alloc = (IF TheList.alive THEN NodesFrom(heap, TheList.begin) ELSE {})
    /\ ret.op \in {"clear", "destroy"} => alloc = {}
    /\ \A i, j \in DOMAIN log :
         (log[i].ev = "delete" /\ log[j].addr = log[i].addr /\ i # j) =>
             (j < i /\ log[j].ev = "read_next")

(* C8: the allocated nodes of a list are exactly those reachable from begin;
   clear() releases every node of the chain exactly once, in chain order, and
   reads no next link of a released node; the destructor runs clear(), so a
   destroyed list leaves nothing allocated. *)
C8_ClearReleasesAll ==
    /\ []C8_Owned
    /\ [][ret'.op \in {"clear", "destroy"} =>
            /\ [i \in DOMAIN Released(log') |-> Released(log')[i].addr]
                 = ChainSeq(heap, TheList.begin, Fuel)
            /\ Len(log') = 2 * Len(ChainSeq(heap, TheList.begin, Fuel))
            /\ ret'.op = "destroy" => ~lists'[1].alive]_vars

\* A list of MaxLen nodes has just been destroyed.
C8_Witness ==
    /\ ~TheList.alive
    /\ ret.op = "destroy"
    /\ Len(log) = 2 * MaxLen
    /\ alloc = {}

RECURSIVE Rendered(_)
\* Each value's text followed by one space.
Rendered(values) ==
    IF values = << >> THEN ""
    ELSE ValueText(Head(values)) \o " " \o Rendered(Tail(values))

(* C9: rendering gives "[", a space, each node's value from begin to end
   followed by a space, then "]": "[ ]" for the empty list and "[ 123 456 ]"
   for 123 then 456; it writes _size values, those operator[] returns at
   0 .. _size-1, in that order. *)
C9_Render ==
    TheList.alive =>
        LET n == TheList._size
            vals == [i \in 1 .. n |-> heap[NthNext(heap, TheList.begin, i - 1)].value]
        IN  /\ RenderOp(heap, alloc, TheList)
                 = {[out |-> "[ " \o Rendered(vals) \o "]", seen |-> vals,
                     ub |-> FALSE, hang |-> FALSE]}
            /\ \A r \in RenderOp(heap, alloc, TheList) :
                 /\ Len(r.seen) = SizeOp(TheList)
                 /\ \A i \in 0 .. (n - 1) :
                      \A g \in IndexOp(heap, alloc, TheList, i) :
                          g.kind = "value" /\ g.value = r.seen[i + 1]
                 /\ hist[1] = << >> => r.out = "[ ]"
                 /\ hist[1] = <<123, 456>> => r.out = "[ 123 456 ]"
            /\ ret.op = "render" => ret.out = "[ " \o Rendered(hist[1]) \o "]"

\* The list holding 123 then 456 has just been rendered.
C9_Witness ==
    /\ TheList.alive
    /\ hist[1] = <<123, 456>>
    /\ ret.op = "render" /\ ret.out = "[ 123 456 ]"

(* C10: append allocates exactly one node, adds 1 to _size and makes the new
   node end; it keeps begin (of a non-empty list), every old node's value and
   prev, and every old node's next except the old end's, which becomes the
   new node; so operator[] below the old _size returns what it returned. *)
C10_AppendFrame ==
    [][ret'.op = "append" =>
          LET old == TheList
              new == lists'[1]
          IN  /\ alloc \subseteq alloc'
              /\ Cardinality(alloc') = Cardinality(alloc) + 1
              /\ new.end \in alloc' \ alloc
              /\ new._size = old._size + 1
              /\ heap'[new.end].next = null
              /\ old.begin # null => new.begin = old.begin
              /\ old.begin = null => new.begin = new.end
              /\ \A a \in alloc :
                   /\ heap'[a].value = heap[a].value
                   /\ heap'[a].prev = heap[a].prev
                   /\ a # old.end => heap'[a].next = heap[a].next
              /\ old.end # null => heap'[old.end].next = new.end
              /\ \A i \in 0 .. (old._size - 1) :
                   IndexOp(heap', alloc', new, i) = IndexOp(heap, alloc, old, i)]_vars

\* An append has just made a chain of MaxLen nodes.
C10_Witness ==
    /\ TheList.alive
    /\ ret.op = "append"
    /\ TheList._size = MaxLen
    /\ Cardinality(alloc) = MaxLen

====
